---- MODULE Spec2Model ----
(***************************************************************************)
(* BNO/USO pairs trading strategy (src/bno-uso-pairs-algo.py).             *)
(*                                                                         *)
(* The strategy is one scheduled callback, check_spread, that reads a      *)
(* window of daily prices of the two funds, normalises the last spread     *)
(* into a z-score and moves between three positions kept in two flags of   *)
(* the host's context object.                                              *)
(*                                                                         *)
(* Numbers.  A price is the double nearest to a fraction num/den (1, 2,    *)
(* 1.1 = 11/10, ...) or NaN (the host's value for a missing price).  The   *)
(* program computes in IEEE 754 doubles.  A double is carried as the exact *)
(* value it rounds: a mean is a fraction num/den, a standard deviation is  *)
(* the square root of a fraction, and a z-score is sgn * sqrt(num/den), so *)
(* that a comparison against 1.8 or 1.0 is decided by integer              *)
(* cross-multiplication wherever the exact value is off the threshold (the *)
(* rounding error of the operations of lines 94-106 on a window of 50 rows *)
(* is below 2^-40 of the value; an exact z-score whose fraction fits the   *)
(* integers of the model and that is off a threshold is farther than 2^-38 *)
(* from it).                                                               *)
(* Rounding decides in two places, and there the doubles are computed bit  *)
(* for bit, operation by operation, in the binary64 arithmetic defined     *)
(* below (round to nearest, ties to even), with sums taken in the order    *)
(* numpy takes them:                                                       *)
(*  - where the exact z-score is on a threshold: the z-score carries in    *)
(*    `side` on which side of the threshold's double it fell;              *)
(*  - where the exact variance is 0 and a price is not a binary fraction:  *)
(*    the mean of identical doubles need not be that double, so the std    *)
(*    may come out above 0 (it carries that in `positive`), and then the   *)
(*    z-score is rounding noise over rounding noise and is carried as the  *)
(*    threshold it is measured against and the side it is on.              *)
(* NaN propagates through arithmetic and makes every comparison false; the *)
(* reductions mean and std skip NaN entries, as the pandas reductions      *)
(* behind np.mean and np.std do.                                           *)
(***************************************************************************)
EXTENDS Integers, Sequences, FiniteSets, TLC

VARIABLES
    pc,          \* "idle": between invocations; "returned": check_spread has run
    prices,      \* check_spread's local `prices`: the window data.history returned
    short_bno,   \* context.short_bno
    short_uso,   \* context.short_uso
    orders,      \* order_target_percent calls of the latest invocation, in order
    recorded,    \* record(zscore=...) calls of the latest invocation, in order
    prior,       \* <<short_bno, short_uso>> as the latest invocation found them
    last_orders  \* the order pair most recently emitted by an earlier invocation

vars == <<pc, prices, short_bno, short_uso, orders, recorded, prior, last_orders>>

---------------------------------------------------------------------------
(* Bounds of the model *)

\* Rows of a window of the grid of whole prices; data.history asks for 50.
WindowLen == 5

\* Rows of a window of the grid of prices in tenths.
DecimalLen == 3

\* BNO's whole prices are 1..MaxPrice and its prices in tenths 1.1 .. 1 +
\* MaxPrice / 10.
MaxPrice == 2

---------------------------------------------------------------------------
(* Program constants *)

\* context.uso = sid(28320)
uso == 28320

\* context.bno = sid(39699)
bno == 39699

\* entry threshold 1.8 = EntryNum / ThresholdDen
EntryNum == 18

\* exit threshold 1.0 = ExitNum / ThresholdDen
ExitNum == 10

\* denominator of the two thresholds written as tenths
ThresholdDen == 10

\* allocation fraction 0.5, in tenths of the portfolio
AllocTenths == 5

\* rows data.history is asked for
HistoryLen == 50

---------------------------------------------------------------------------
(* Numbers *)

NaN == [nan |-> TRUE]

IsNaN(x) == x = NaN

\* The float of the whole number n.
Num(n) == [num |-> n, den |-> 1]

\* A fraction num/den, den > 0.
Frac(n, d) == [num |-> n, den |-> d]

Sign(n) == IF n > 0 THEN 1 ELSE IF n < 0 THEN -1 ELSE 0

AbsInt(n) == IF n < 0 THEN -n ELSE n

RECURSIVE GCD(_, _)
GCD(a, b) == IF b = 0 THEN a ELSE GCD(b, a % b)

RECURSIVE Pow2(_)
Pow2(k) == IF k = 0 THEN 1 ELSE 2 * Pow2(k - 1)

\* The number of binary digits of n >= 0.
RECURSIVE IntBitLen(_)
IntBitLen(n) == IF n = 0 THEN 0 ELSE 1 + IntBitLen(n \div 2)

\* f in lowest terms; 0/0 and n/0 are left.
Reduced(f) ==
    LET g == GCD(AbsInt(f.num), f.den)
    IN  IF g = 0 THEN f ELSE Frac(f.num \div g, f.den \div g)

\* The least common multiple of a > 0 and b > 0.
LCM(a, b) == (a \div GCD(a, b)) * b

\* The fraction f as a whole number of d-ths, for d a multiple of f.den.
InUnits(f, d) == f.num * (d \div f.den)

\* x + y
FAdd(x, y) ==
    IF IsNaN(x) \/ IsNaN(y) THEN NaN
    ELSE IF x.den = y.den THEN Frac(x.num + y.num, x.den)
    ELSE Frac(x.num * y.den + y.num * x.den, x.den * y.den)

\* x - y, over the larger denominator where it is a multiple of the other.
FSub(x, y) ==
    IF IsNaN(x) \/ IsNaN(y) THEN NaN
    ELSE IF x.den % y.den = 0
    THEN Frac(x.num - InUnits(y, x.den), x.den)
    ELSE IF y.den % x.den = 0
    THEN Frac(InUnits(x, y.den) - y.num, y.den)
    ELSE Frac(x.num * y.den - y.num * x.den, x.den * y.den)

\* x * x
FSquare(x) == IF IsNaN(x) THEN NaN ELSE Frac(x.num * x.num, x.den * x.den)

\* x / n for a count n > 0
FDivInt(x, n) == IF IsNaN(x) THEN NaN ELSE Frac(x.num, x.den * n)

\* The exact sum of a series, by halves.
RECURSIVE FSum(_)
FSum(s) ==
    IF Len(s) = 0 THEN Num(0)
    ELSE IF Len(s) = 1 THEN s[1]
    ELSE FAdd(FSum(SubSeq(s, 1, Len(s) \div 2)),
              FSum(SubSeq(s, Len(s) \div 2 + 1, Len(s))))

\* The fraction f is a whole number of halves, quarters, eighths, ...: with the
\* few digits the model's numbers have, a double holds it without rounding.
Dyadic(f) ==
    LET d == f.den \div GCD(AbsInt(f.num), f.den)
    IN  d = Pow2(IntBitLen(d) - 1)

---------------------------------------------------------------------------
(* IEEE 754 binary64, the arithmetic of Python's float and numpy's float64 *)
(*                                                                         *)
(* A natural number of any size is the sequence of its digits in base      *)
(* LimbBase, lowest first, without a leading zero digit.  A double is      *)
(* (-1)^neg * m * 2^e with m a natural number of exactly MantissaBits      *)
(* binary digits, or zero (m = << >>).  Every operation computes the exact *)
(* result and rounds it once, to nearest, ties to even.  Infinities, NaN,  *)
(* subnormals and the sign of zero do not arise on the values below.       *)

\* Binary digits of the significand of a double.
MantissaBits == 53

\* Binary digits of one digit of a natural number, and the base.
LimbBits == 15

LimbBase == 32768

\* The natural number n.
RECURSIVE BigOfInt(_)
BigOfInt(n) ==
    IF n = 0 THEN << >> ELSE << n % LimbBase >> \o BigOfInt(n \div LimbBase)

\* a without leading zero digits.
RECURSIVE BigTrim(_)
BigTrim(a) ==
    IF Len(a) > 0 /\ a[Len(a)] = 0 THEN BigTrim(SubSeq(a, 1, Len(a) - 1)) ELSE a

\* a + b + c, c a carry.
RECURSIVE BigAddC(_, _, _)
BigAddC(a, b, c) ==
    IF Len(a) = 0 /\ Len(b) = 0 THEN BigOfInt(c)
    ELSE LET x == IF Len(a) = 0 THEN 0 ELSE Head(a)
             y == IF Len(b) = 0 THEN 0 ELSE Head(b)
             t == x + y + c
         IN  << t % LimbBase >>
                 \o BigAddC(IF Len(a) = 0 THEN a ELSE Tail(a),
                            IF Len(b) = 0 THEN b ELSE Tail(b),
                            t \div LimbBase)

\* a + b
BigAdd(a, b) == BigAddC(a, b, 0)

\* a - b - c for a >= b + c, c a borrow; leading zeros are left.
RECURSIVE BigSubB(_, _, _)
BigSubB(a, b, c) ==
    IF Len(a) = 0 THEN << >>
    ELSE LET y == IF Len(b) = 0 THEN 0 ELSE Head(b)
             t == Head(a) - y - c
         IN  << (t + LimbBase) % LimbBase >>
                 \o BigSubB(Tail(a), IF Len(b) = 0 THEN b ELSE Tail(b),
                            IF t < 0 THEN 1 ELSE 0)

\* a - b for a >= b
BigSub(a, b) == BigTrim(BigSubB(a, b, 0))

\* The comparison of the digits i, i - 1, ..., 1 of a and b.
RECURSIVE BigCmpAt(_, _, _)
BigCmpAt(a, b, i) ==
    IF i = 0 THEN 0
    ELSE IF a[i] > b[i] THEN 1
    ELSE IF a[i] < b[i] THEN -1
    ELSE BigCmpAt(a, b, i - 1)

\* 1, 0 or -1 as a > b, a = b or a < b.
BigCmp(a, b) ==
    IF Len(a) > Len(b) THEN 1
    ELSE IF Len(a) < Len(b) THEN -1
    ELSE BigCmpAt(a, b, Len(a))

\* a * d + c for a digit d and a carry c.
RECURSIVE BigMulLimb(_, _, _)
BigMulLimb(a, d, c) ==
    IF Len(a) = 0 THEN BigOfInt(c)
    ELSE LET t == Head(a) * d + c
         IN  << t % LimbBase >> \o BigMulLimb(Tail(a), d, t \div LimbBase)

\* a * b
RECURSIVE BigMul(_, _)
BigMul(a, b) ==
    IF Len(a) = 0 \/ Len(b) = 0 THEN << >>
    ELSE BigAdd(BigMulLimb(a, Head(b), 0),
                IF Len(b) = 1 THEN << >> ELSE << 0 >> \o BigMul(a, Tail(b)))

\* a * 2^k
BigShl(a, k) ==
    IF Len(a) = 0 THEN << >>
    ELSE [i \in 1..(k \div LimbBits) |-> 0] \o BigMulLimb(a, Pow2(k % LimbBits), 0)

\* Quotient and remainder of a by a digit d > 0; leading zeros are left.
RECURSIVE BigDivLimb(_, _)
BigDivLimb(a, d) ==
    IF Len(a) = 0 THEN [q |-> << >>, r |-> 0]
    ELSE LET hi  == BigDivLimb(Tail(a), d)
             cur == hi.r * LimbBase + Head(a)
         IN  [q |-> << cur \div d >> \o hi.q, r |-> cur % d]

\* a \div 2^k
BigShr(a, k) ==
    IF Len(a) <= k \div LimbBits THEN << >>
    ELSE BigTrim(BigDivLimb(SubSeq(a, (k \div LimbBits) + 1, Len(a)),
                            Pow2(k % LimbBits)).q)

\* a % 2^k
BigLowBits(a, k) ==
    IF Len(a) <= k \div LimbBits THEN a
    ELSE BigTrim(SubSeq(a, 1, k \div LimbBits)
                    \o << a[(k \div LimbBits) + 1] % Pow2(k % LimbBits) >>)

\* The number of binary digits of a.
BitLen(a) ==
    IF Len(a) = 0 THEN 0 ELSE LimbBits * (Len(a) - 1) + IntBitLen(a[Len(a)])

BigIsOdd(a) == Len(a) > 0 /\ a[1] % 2 = 1

\* 0.0
DZero == [neg |-> FALSE, m |-> << >>, e |-> 0]

DIsZero(x) == x.m = << >>

\* (-1)^neg * q * 2^e for a q of MantissaBits binary digits or, after a carry
\* out of the top digit, of one more.
RoundCarry(neg, q, e) ==
    IF BitLen(q) > MantissaBits
    THEN [neg |-> neg, m |-> BigShr(q, 1), e |-> e + 1]
    ELSE [neg |-> neg, m |-> q, e |-> e]

\* The digits kept are q; c is 1, 0 or -1 as the digits dropped are more than,
\* exactly or less than half a unit of q, and sticky says there is more below
\* them.  Above half goes up, below half goes down, a tie goes to the even q.
RoundTie(neg, q, e, c, sticky) ==
    RoundCarry(neg,
               IF c = 1 \/ (c = 0 /\ (sticky \/ BigIsOdd(q)))
               THEN BigAdd(q, << 1 >>) ELSE q,
               e)

\* RoundDouble for an M of L binary digits.
RoundLen(neg, M, e, sticky, L) ==
    IF L = 0 THEN DZero
    ELSE IF L <= MantissaBits
    THEN [neg |-> neg, m |-> BigShl(M, MantissaBits - L),
          e |-> e - (MantissaBits - L)]
    ELSE RoundTie(neg, BigShr(M, L - MantissaBits), e + (L - MantissaBits),
                  BigCmp(BigLowBits(M, L - MantissaBits),
                         BigShl(<< 1 >>, L - MantissaBits - 1)),
                  sticky)

\* The double nearest to (-1)^neg * (M + f) * 2^e, ties to even, where f = 0
\* if ~sticky and 0 < f < 1 if sticky (then M has more than MantissaBits + 1
\* binary digits).
RoundDouble(neg, M, e, sticky) == RoundLen(neg, M, e, sticky, BitLen(M))

\* float(n)
DOfInt(n) == RoundDouble(n < 0, BigOfInt(IF n < 0 THEN -n ELSE n), 0, FALSE)

\* -x
DNeg(x) == IF DIsZero(x) THEN x ELSE [x EXCEPT !.neg = ~x.neg]

\* abs(x)
DAbs(x) == [x EXCEPT !.neg = FALSE]

MinInt(a, b) == IF a < b THEN a ELSE b

\* (-1)^xneg * a * 2^e + (-1)^yneg * b * 2^e, rounded: the sum of the two
\* magnitudes under a common sign, or the larger less the smaller under the
\* sign of the larger; equal magnitudes of opposite signs give 0.0.
DAddAligned(xneg, a, yneg, b, e) ==
    RoundDouble(IF xneg = yneg \/ BigCmp(a, b) >= 0 THEN xneg ELSE yneg,
                IF xneg = yneg THEN BigAdd(a, b)
                ELSE IF BigCmp(a, b) >= 0 THEN BigSub(a, b)
                ELSE BigSub(b, a),
                e, FALSE)

\* x + y
DAdd(x, y) ==
    IF DIsZero(x) THEN y
    ELSE IF DIsZero(y) THEN x
    ELSE DAddAligned(x.neg, BigShl(x.m, x.e - MinInt(x.e, y.e)),
                     y.neg, BigShl(y.m, y.e - MinInt(x.e, y.e)),
                     MinInt(x.e, y.e))

\* x - y
DSub(x, y) == DAdd(x, DNeg(y))

\* x * y
DMul(x, y) ==
    IF DIsZero(x) \/ DIsZero(y) THEN DZero
    ELSE RoundDouble(x.neg # y.neg, BigMul(x.m, y.m), x.e + y.e, FALSE)

\* k steps of binary long division of r by d, for r < 2 * d: the k quotient
\* digits, and the remainder doubled k times.  The upper half of the digits is
\* evaluated before the lower half.
RECURSIVE DivBits(_, _, _)
DivBits(r, d, k) ==
    IF k = 1
    THEN IF BigCmp(r, d) >= 0
         THEN [q |-> << 1 >>, r |-> BigShl(BigSub(r, d), 1)]
         ELSE [q |-> << >>, r |-> BigShl(r, 1)]
    ELSE LET hi == DivBits(r, d, k \div 2)
         IN  IF hi.q = << >> THEN DivBits(hi.r, d, k - k \div 2)
             ELSE LET lo == DivBits(hi.r, d, k - k \div 2)
                  IN  [q |-> BigAdd(BigShl(hi.q, k - k \div 2), lo.q),
                       r |-> lo.r]

\* The double of the quotient digits b.q, a remainder b.r left or not.
DivRound(neg, b, e) == RoundDouble(neg, b.q, e, b.r # << >>)

\* x / y for y # 0
DDiv(x, y) ==
    IF DIsZero(x) THEN DZero
    ELSE DivRound(x.neg # y.neg, DivBits(x.m, y.m, MantissaBits + 3),
                  x.e - y.e - (MantissaBits + 2))

\* c if c * c <= n, else root.
SqrtTry(n, root, c) == IF BigCmp(BigMul(c, c), n) <= 0 THEN c ELSE root

\* The largest r = root + (digits hi..lo) with r * r <= n, digit by digit; the
\* upper half of the digits is evaluated before the lower half.
RECURSIVE SqrtBits(_, _, _, _)
SqrtBits(n, root, hi, lo) ==
    IF hi = lo
    THEN SqrtTry(n, root, BigAdd(root, BigShl(<< 1 >>, hi)))
    ELSE LET mid   == (hi + lo + 1) \div 2
             upper == SqrtBits(n, root, hi, mid)
         IN  IF upper = << >> THEN SqrtBits(n, << >>, mid - 1, lo)
             ELSE SqrtBits(n, upper, mid - 1, lo)

\* The shift k of the significand of m * 2^e that leaves an even exponent
\* e - k and a root of MantissaBits + 2 binary digits.
SqrtShift(e) ==
    IF (e - (MantissaBits + 3)) % 2 = 0
    THEN MantissaBits + 3 ELSE MantissaBits + 4

\* The double of root * 2^e, root the whole part of sqrt(n); n a square or not.
SqrtRound(n, root, e) ==
    RoundDouble(FALSE, root, e, BigCmp(BigMul(root, root), n) # 0)

\* sqrt(n * 2^(2 * e))
SqrtScaled(n, e) == SqrtRound(n, SqrtBits(n, << >>, MantissaBits + 1, 0), e)

\* sqrt(x) for x >= 0
DSqrt(x) ==
    IF DIsZero(x) THEN DZero
    ELSE SqrtScaled(BigShl(x.m, SqrtShift(x.e)), (x.e - SqrtShift(x.e)) \div 2)

\* 1, 0 or -1 as d > 0, d = 0 or d < 0.
DSign(d) == IF DIsZero(d) THEN 0 ELSE IF d.neg THEN -1 ELSE 1

\* 1, 0 or -1 as x > y, x = y or x < y.
DCmp(x, y) == DSign(DSub(x, y))

\* The double nearest to the fraction f.
DOfFrac(f) == DDiv(DOfInt(f.num), DOfInt(f.den))

---------------------------------------------------------------------------
(* pandas / numpy reductions used by check_spread *)

\* The entries of a series that are not NaN (the reductions' skipna).
Valid(s) == SelectSeq(s, LAMBDA x : ~IsNaN(x))

\* np.mean(series): the arithmetic mean of the entries that are not NaN;
\* NaN when there is none.
np_mean(s) ==
    LET v == Valid(s)
    IN  IF Len(v) = 0 THEN NaN ELSE FDivInt(FSum(v), Len(v))

\* The squared deviations of the valid entries from avg.
SqDev(v, avg) == [i \in 1..Len(v) |-> FSquare(FSub(avg, v[i]))]

\* np.std with the sample divisor N - 1 (ddof = 1, the default of pandas' own
\* Series.std) in place of N.
np_std_Sample(s) ==
    LET v == Valid(s)
    IN  IF Len(v) <= 1 THEN NaN
        ELSE [rad |-> FDivInt(FSum(SqDev(v, np_mean(v))), Len(v) - 1)]

\* np.std(series): the population standard deviation (ddof = 0, divisor N) of
\* the entries that are not NaN, as the root of a fraction; NaN when there is
\* none.
np_std(s) ==
    LET v == Valid(s)
    IN  IF Len(v) = 0 THEN NaN
        ELSE [rad |-> FDivInt(FSum(SqDev(v, np_mean(v))), Len(v))]

\* Accumulators of numpy's unrolled summation loop.
PairwiseLanes == 8

\* res + a[i] + a[i + step] + ... up to index j, added from left to right; the
\* left half of the terms is evaluated before the right half.
RECURSIVE SumLeft(_, _, _, _, _)
SumLeft(a, res, i, j, step) ==
    IF i > j THEN res
    ELSE IF i + step > j THEN DAdd(res, a[i])
    ELSE LET mid  == i + step * (((j - i) \div step) \div 2)
             left == SumLeft(a, res, i, mid, step)
         IN  IF DIsZero(left) THEN SumLeft(a, DZero, mid + step, j, step)
             ELSE SumLeft(a, left, mid + step, j, step)

\* The length of the whole blocks of PairwiseLanes values at the front of a.
FullBlocks(a) == PairwiseLanes * (Len(a) \div PairwiseLanes)

\* The accumulators after the first `full` values: the j-th holds a[j] +
\* a[j + 8] + a[j + 16] + ..., added in that order.
Lanes(a, full) ==
    [j \in 1..PairwiseLanes |->
        SumLeft(a, a[j], j + PairwiseLanes, full, PairwiseLanes)]

\* The accumulators r[lo..hi] added up pairwise:
\* ((r1 + r2) + (r3 + r4)) + ((r5 + r6) + (r7 + r8)).
RECURSIVE SumPairs(_, _, _)
SumPairs(r, lo, hi) ==
    IF lo = hi THEN r[lo]
    ELSE DAdd(SumPairs(r, lo, (lo + hi) \div 2),
              SumPairs(r, (lo + hi) \div 2 + 1, hi))

\* ndarray.sum() of at most 128 doubles, as numpy's add.reduce takes it: fewer
\* than 8 values are added from left to right; otherwise 8 accumulators take
\* every 8th value each over the whole blocks of 8, are added up pairwise, and
\* the values left over are added to the result from left to right.
pairwise_sum(a) ==
    SumLeft(a,
            IF Len(a) < PairwiseLanes THEN DZero
            ELSE SumPairs(Lanes(a, FullBlocks(a)), 1, PairwiseLanes),
            IF Len(a) < PairwiseLanes THEN 1 ELSE FullBlocks(a) + 1,
            Len(a), 1)

\* A series of doubles with 0.0 in place of NaN: what pandas sums.
Filled(s) == [i \in 1..Len(s) |-> IF IsNaN(s[i]) THEN DZero ELSE s[i]]

\* np.mean(series) for a series of doubles with an entry that is not NaN: the
\* sum of the filled values over the count of the entries that are not NaN.
mean_double(s) == DDiv(pairwise_sum(Filled(s)), DOfInt(Len(Valid(s))))

\* x ** 2
DSquare(x) == DMul(x, x)

\* (avg - values) ** 2 with 0.0 at the NaN entries.
sqr_double(s, avg) ==
    [i \in 1..Len(s) |->
        IF IsNaN(s[i]) THEN DZero ELSE DSquare(DSub(avg, s[i]))]

\* np.std(series) (ddof = 0) for a series of doubles with an entry that is not
\* NaN: sqrt(sum((avg - values) ** 2) / count), the squares of the NaN entries
\* set to 0.0.
std_double(s) ==
    DSqrt(DDiv(pairwise_sum(sqr_double(s, mean_double(s))),
               DOfInt(Len(Valid(s)))))

\* sgn * sqrt(f * g) for two fractions f and g.
RootOfProduct(sgn, f, g) ==
    [sgn |-> sgn, num |-> f.num * g.num, den |-> f.den * g.den]

\* sgn * sqrt(x2 / r) for fractions x2 and r in lowest terms: numerator over
\* numerator and denominator over denominator, each in lowest terms.
SquareOver(sgn, x2, r) ==
    RootOfProduct(sgn, Reduced(Frac(x2.num, r.num)),
                  Reduced(Frac(r.den, x2.den)))

\* The exact value of x / s for a float x and a root s: sgn * sqrt(num / den);
\* den = 0 is an infinity, and 0 / 0 is NaN (numpy floats do not raise on
\* division by zero).
FDivRoot(x, s) ==
    IF IsNaN(x) \/ IsNaN(s) THEN NaN
    ELSE IF s.rad.num = 0 /\ x.num = 0 THEN NaN
    ELSE SquareOver(Sign(x.num), Reduced(FSquare(x)), Reduced(s.rad))

\* abs(z)
ZAbs(z) == IF IsNaN(z) THEN NaN ELSE [z EXCEPT !.sgn = IF z.sgn = 0 THEN 0 ELSE 1]

\* -t for a fraction t
FNeg(t) == Frac(-t.num, t.den)

\* z*z > t*t and z*z < t*t for a z-score z and a fraction t
SqGreater(z, t) ==
    LET r == Reduced(t) IN z.num * r.den * r.den > r.num * r.num * z.den

SqLess(z, t) ==
    LET r == Reduced(t) IN z.num * r.den * r.den < r.num * r.num * z.den

\* z*z = t*t: the exact value of z is t or -t
SqEqual(z, t) ==
    LET r == Reduced(t) IN z.num * r.den * r.den = r.num * r.num * z.den

\* z >= t in place of z > t
ZGreater_OrEqual(z, t) ==
    /\ ~IsNaN(z)
    /\ IF t.num >= 0 THEN z.sgn = 1 /\ ~SqLess(z, t)
       ELSE z.sgn >= 0 \/ ~SqGreater(z, t)

\* z > t for the double z and the double of the literal t; false when z is
\* NaN.  Where the exact value of z is t, the side the double fell on decides.
ZGreater(z, t) ==
    /\ ~IsNaN(z)
    /\ IF t.num >= 0
       THEN z.sgn = 1 /\ (SqGreater(z, t) \/ (SqEqual(z, t) /\ z.side > 0))
       ELSE z.sgn >= 0 \/ SqLess(z, t) \/ (SqEqual(z, t) /\ z.side < 0)

\* z < t decided on the exact value of z alone, as if no operation rounded.
ZLess_Exact(z, t) ==
    /\ ~IsNaN(z)
    /\ IF t.num <= 0 THEN z.sgn = -1 /\ SqGreater(z, t)
       ELSE z.sgn <= 0 \/ SqLess(z, t)

\* z < t for the double z and the double of the literal t; false when z is
\* NaN.  Where the exact value of z is t, the side the double fell on decides.
ZLess(z, t) ==
    /\ ~IsNaN(z)
    /\ IF t.num <= 0
       THEN z.sgn = -1 /\ (SqGreater(z, t) \/ (SqEqual(z, t) /\ z.side > 0))
       ELSE z.sgn <= 0 \/ SqLess(z, t) \/ (SqEqual(z, t) /\ z.side < 0)

---------------------------------------------------------------------------
(* The host's price history *)

\* Prices of BNO that are whole numbers, 1..MaxPrice: their doubles, and the
\* doubles of their spreads, are the numbers themselves.
WholePrices == {Num(p) : p \in 1..MaxPrice}

\* Prices of BNO in tenths, 1.1 .. 1 + MaxPrice / 10: the double of each is
\* the nearest one, not the number.
TenthPrices == {Frac(10 + t, 10) : t \in 1..MaxPrice}

\* One day of the window: a price, or NaN, for each of the two funds.
Row(b, u) == (bno :> b) @@ (uso :> u)

\* The days of the grid: USO at the reference price 1 with any whole price of
\* BNO or with BNO missing, USO missing with BNO at 1, and both missing.
Rows ==
    {Row(b, Num(1)) : b \in WholePrices \cup {NaN}}
        \cup {Row(Num(1), NaN), Row(NaN, NaN)}

GridWindows == [1..WindowLen -> Rows]

\* Days with prices in tenths: USO at 1 with any price of BNO in tenths, and
\* BNO at 0.3 with USO at 0.2 (as numbers 0.3 - 0.2 and 1.1 - 1.0 are both
\* 0.1; as doubles the first is 0.09999999999999998 and the second
\* 0.10000000000000009).
DecimalRows ==
    {Row(b, Num(1)) : b \in TenthPrices} \cup {Row(Frac(3, 10), Frac(2, 10))}

DecimalGrid == [1..DecimalLen -> DecimalRows]

\* Windows whose z-score is exactly +1.8 and exactly -1.8: the spreads are
\* 0,0,1,3,4,7 (mean 2.5, std 2.5, last 7) and 3,4,6,7,7,0 (mean 4.5, std 2.5,
\* last 0).
ThresholdWindows ==
    { << Row(Num(1), Num(1)), Row(Num(2), Num(2)), Row(Num(3), Num(2)),
         Row(Num(4), Num(1)), Row(Num(5), Num(1)), Row(Num(8), Num(1)) >>,
      << Row(Num(4), Num(1)), Row(Num(5), Num(1)), Row(Num(7), Num(1)),
         Row(Num(8), Num(1)), Row(Num(8), Num(1)), Row(Num(1), Num(1)) >> }

\* Windows whose exact z-score is +1.0 and -1.0 while the double is not: with
\* the spreads 1,2,2,2,2,3,3,3,3 the mean 7/3 rounds to 2.3333333333333335 and
\* the std 2/3 to 0.6666666666666666, and (3.0 - mean) / std is
\* 0.9999999999999998; with the spreads 0,0,0,1,1,1,1,2,0 the mean 2/3 rounds
\* to 0.6666666666666666 and the std 2/3 to 0.6666666666666667, and
\* (0.0 - mean) / std is -0.9999999999999999.
RoundingWindows ==
    { << Row(Num(2), Num(1)), Row(Num(3), Num(1)), Row(Num(3), Num(1)),
         Row(Num(3), Num(1)), Row(Num(3), Num(1)), Row(Num(4), Num(1)),
         Row(Num(4), Num(1)), Row(Num(4), Num(1)), Row(Num(4), Num(1)) >>,
      << Row(Num(1), Num(1)), Row(Num(1), Num(1)), Row(Num(1), Num(1)),
         Row(Num(2), Num(1)), Row(Num(2), Num(1)), Row(Num(2), Num(1)),
         Row(Num(2), Num(1)), Row(Num(3), Num(1)), Row(Num(1), Num(1)) >> }

\* A window of the length check_spread asks for, 50 rows, with USO at 1 and
\* the spreads 0 (10 times), 1, 2 (6 times), 3 (27 times), 4 (5 times), 1: the
\* mean is 2.3, the std 1.3 and the exact z-score -1.0, and in doubles
\* (1.0 - 2.3) / 1.3 is -0.9999999999999998.
FullWindow ==
    [i \in 1..HistoryLen |->
        Row(Num(1 + (IF i <= 10 THEN 0 ELSE IF i <= 11 THEN 1
                     ELSE IF i <= 17 THEN 2 ELSE IF i <= 44 THEN 3
                     ELSE IF i <= 49 THEN 4 ELSE 1)),
            Num(1))]

\* n rows of BNO at b and USO at u.
Repeat(n, b, u) == [i \in 1..n |-> Row(b, u)]

\* Longer windows with prices in tenths.
\*  - BNO 1.1 and USO 1.0 on each of 50 days: every spread is the double
\*    0.10000000000000009, their sum rounds, the mean comes out as
\*    0.10000000000000007 and the std as 2^-56 = 1.3877787807814457e-17, and
\*    (spread - mavg) / std is 1.0.
\*  - The same on 5 days: the sum of the five spreads divided by 5 is the
\*    spread again and the std is 0.0.
\*  - BNO 1.1, USO 1.0 on five days, then BNO 0.3, USO 0.2, and the other way
\*    round: as numbers the six spreads are all 0.1, as doubles the last one
\*    differs (0.3 - 0.2 is 0.09999999999999998); the std is
\*    4.163336342344337e-17 and the z-score -2.3333333333333335 and
\*    2.3333333333333335.
\*  - The spreads 0.1, 0.1, 0.1, 0.1, 0.2 (BNO 1.1 and 1.2, USO 1.0): z-score
\*    2.0.
DecimalWindows ==
    { Repeat(HistoryLen, Frac(11, 10), Num(1)),
      Repeat(5, Frac(11, 10), Num(1)),
      Repeat(5, Frac(11, 10), Num(1)) \o << Row(Frac(3, 10), Frac(2, 10)) >>,
      Repeat(5, Frac(3, 10), Frac(2, 10)) \o << Row(Frac(11, 10), Num(1)) >>,
      Repeat(4, Frac(11, 10), Num(1)) \o << Row(Frac(12, 10), Num(1)) >> }

\* What data.history([bno, uso], 'price', 50, '1d') may return.
History ==
    GridWindows \cup ThresholdWindows \cup RoundingWindows \cup {FullWindow}
        \cup DecimalGrid \cup DecimalWindows

---------------------------------------------------------------------------
(* check_spread, piece by piece *)

\* The row has both prices.
Present(row) == ~IsNaN(row[bno]) /\ ~IsNaN(row[uso])

\* The common denominator of the prices of rows that have both.
RECURSIVE CommonDen(_)
CommonDen(rows) ==
    IF Len(rows) = 0 THEN 1
    ELSE IF Len(rows) = 1 THEN LCM(rows[1][bno].den, rows[1][uso].den)
    ELSE LCM(CommonDen(SubSeq(rows, 1, Len(rows) \div 2)),
             CommonDen(SubSeq(rows, Len(rows) \div 2 + 1, Len(rows))))

\* The spread of every row over the denominator d, NaN where a price is.
SpreadOver(p, d) ==
    [i \in 1..Len(p) |->
        IF Present(p[i])
        THEN Frac(InUnits(p[i][bno], d) - InUnits(p[i][uso], d), d)
        ELSE NaN]

\* prices[bno] - prices[uso]: the spread of every row, NaN where a price is,
\* all over the common denominator of the prices.
Spread(p) == SpreadOver(p, CommonDen(SelectSeq(p, Present)))

\* prices.iloc[-1:]: the frame of the last row alone.
iloc_last(p) == SubSeq(p, Len(p), Len(p))

\* mavg = np.mean(prices[bno] - prices[uso])
mavg_of(p) == np_mean(Spread(p))

\* prices[bno] - prices[uso] in doubles: the difference of the doubles of the
\* two prices of every row, NaN where a price is.
spread_double(p) ==
    [i \in 1..Len(p) |->
        IF IsNaN(p[i][bno]) \/ IsNaN(p[i][uso]) THEN NaN
        ELSE DSub(DOfFrac(p[i][bno]), DOfFrac(p[i][uso]))]

\* Every price of the window is a binary fraction, so that its double and the
\* double of every spread is the number itself.
DyadicPrices(p) ==
    \A i \in 1..Len(p) :
        /\ IsNaN(p[i][bno]) \/ Dyadic(p[i][bno])
        /\ IsNaN(p[i][uso]) \/ Dyadic(p[i][uso])

\* For a window whose spreads are all the same number: np.std, in doubles, is
\* above 0.  With binary-fraction prices the spreads are one double, the sum
\* of up to 50 of them is exact, the mean is that double again and every
\* deviation is 0.0.
RoundedAboveZero(p) ==
    ~DyadicPrices(p) /\ ~DIsZero(std_double(spread_double(p)))

\* The std of exact value `std` with the outcome of std > 0 on its double: a
\* variance above 0 has a root above 0 in doubles too, and a variance of 0 may.
StdRounded(std, p) ==
    IF IsNaN(std) THEN NaN
    ELSE [rad      |-> std.rad,
          positive |-> std.rad.num > 0 \/ RoundedAboveZero(p)]

\* std = np.std(prices[bno] - prices[uso])
std_of(p) == StdRounded(np_std(Spread(p)), p)

\* spread = np.mean(current_prices[bno] - current_prices[uso])
spread_of(p) == np_mean(Spread(iloc_last(p)))

\* if std > 0 (false for NaN)
StdPositive(std) == ~IsNaN(std) /\ std.positive

EntryThreshold == Frac(EntryNum, ThresholdDen)

ExitThreshold == Frac(ExitNum, ThresholdDen)

\* (spread - mavg) / std of the window p in doubles, operation by operation;
\* for a window whose last spread is not NaN and whose std is above 0.
zscore_double(p) ==
    DDiv(DSub(mean_double(spread_double(iloc_last(p))),
              mean_double(spread_double(p))),
         std_double(spread_double(p)))

\* For a window p whose exact z-score is t or -t: 1, 0 or -1 as abs(zscore), in
\* doubles, is above, equal to or below the double of the literal t.  When the
\* prices, the mean and the variance are binary fractions, every value of
\* lines 94-106 is one (the std, the z-score being rational, is the root of a
\* square), no operation rounds but the last division, and that one gives the
\* double nearest to t, which is the literal's.
RoundingSide(p, mavg, std, t) ==
    IF DyadicPrices(p) /\ Dyadic(mavg) /\ Dyadic(std.rad) THEN 0
    ELSE DCmp(DAbs(zscore_double(p)), DOfFrac(t))

\* The double zd as the threshold t and the side of t that abs(zd) is on.
Against(zd, t) ==
    [sgn  |-> DSign(zd),
     num  |-> t.num * t.num,
     den  |-> t.den * t.den,
     side |-> DCmp(DAbs(zd), DOfFrac(t))]

\* The z-score of a window whose exact variance is 0 and whose std, in
\* doubles, is not: the double zd, measured against 1.8 if it is that or
\* more in absolute value, and against 1.0 if not.
OfDouble(zd) ==
    IF DCmp(DAbs(zd), DOfFrac(EntryThreshold)) >= 0
    THEN Against(zd, Reduced(EntryThreshold))
    ELSE Against(zd, Reduced(ExitThreshold))

\* The z-score of the exact value z with the side of the threshold its double
\* fell on: 0 off the two thresholds.
WithSide(z, p, mavg, std) ==
    IF IsNaN(z) THEN NaN
    ELSE [sgn  |-> z.sgn,
          num  |-> z.num,
          den  |-> z.den,
          side |-> IF SqEqual(z, ExitThreshold) \/ SqEqual(z, EntryThreshold)
                   THEN RoundingSide(p, mavg, std,
                                     IF SqEqual(z, ExitThreshold)
                                     THEN ExitThreshold ELSE EntryThreshold)
                   ELSE 0]

\* zscore = (spread - mavg) / std: the exact value of the quotient, and the
\* side of the threshold the double fell on where the exact value is on one;
\* where the exact variance is 0, the double alone.
zscore_of(p, spread, mavg, std) ==
    IF ~IsNaN(spread) /\ ~IsNaN(std) /\ std.rad.num = 0
    THEN OfDouble(zscore_double(p))
    ELSE WithSide(FDivRoot(FSub(spread, mavg), std), p, mavg, std)

\* The first guard without its flag: if zscore > 1.8
EnterShortGuard_IgnoresFlag(zscore, sb) == ZGreater(zscore, EntryThreshold)

\* if zscore > 1.8 and not context.short_bno
EnterShortGuard(zscore, sb) == ZGreater(zscore, EntryThreshold) /\ ~sb

\* The second guard with the sign of its threshold lost: elif zscore < 1.8 ...
EnterLongGuard_SignLost(zscore, su) == ZLess(zscore, EntryThreshold) /\ ~su

\* elif zscore < -1.8 and not context.short_uso
EnterLongGuard(zscore, su) == ZLess(zscore, FNeg(EntryThreshold)) /\ ~su

\* The third guard with the entry threshold in place of the exit threshold:
\* elif abs(zscore) < 1.8
ExitGuard_AtEntryThreshold(zscore) == ZLess(ZAbs(zscore), EntryThreshold)

\* elif abs(zscore) < 1.0
ExitGuard(zscore) == ZLess(ZAbs(zscore), ExitThreshold)

\* order_target_percent(asset, tenths / 10)
order_target_percent(asset, tenths) == <<asset, tenths>>

\* The first branch without its flag updates: the orders go out, the flags stay.
EnterShort_ForgetsFlags(sb, su) ==
    [orders |-> << order_target_percent(bno, -AllocTenths),
                   order_target_percent(uso, AllocTenths) >>,
     short_bno |-> sb,
     short_uso |-> su]

\* The first branch with the whole portfolio on each leg: -1.0 and +1.0.
EnterShort_FullAllocation(sb, su) ==
    [orders |-> << order_target_percent(bno, -2 * AllocTenths),
                   order_target_percent(uso, 2 * AllocTenths) >>,
     short_bno |-> TRUE,
     short_uso |-> FALSE]

\* The first branch without its last line: context.short_uso is left as it was.
EnterShort_KeepsShortUso(sb, su) ==
    [orders |-> << order_target_percent(bno, -AllocTenths),
                   order_target_percent(uso, AllocTenths) >>,
     short_bno |-> TRUE,
     short_uso |-> su]

\* The body of the first branch: short BNO, long USO.
EnterShort(sb, su) ==
    [orders |-> << order_target_percent(bno, -AllocTenths),
                   order_target_percent(uso, AllocTenths) >>,
     short_bno |-> TRUE,
     short_uso |-> FALSE]

\* The second branch with the sign of the USO leg lost: both legs long.
EnterLong_BothLegsLong(sb, su) ==
    [orders |-> << order_target_percent(bno, AllocTenths),
                   order_target_percent(uso, AllocTenths) >>,
     short_bno |-> FALSE,
     short_uso |-> TRUE]

\* The body of the second branch: long BNO, short USO.
EnterLong(sb, su) ==
    [orders |-> << order_target_percent(bno, AllocTenths),
                   order_target_percent(uso, -AllocTenths) >>,
     short_bno |-> FALSE,
     short_uso |-> TRUE]

\* The third branch without its second order: only BNO is closed.
ExitFlat_OnlyBno(sb, su) ==
    [orders |-> << order_target_percent(bno, 0) >>,
     short_bno |-> FALSE,
     short_uso |-> FALSE]

\* The body of the third branch: close both positions.
ExitFlat(sb, su) ==
    [orders |-> << order_target_percent(bno, 0),
                   order_target_percent(uso, 0) >>,
     short_bno |-> FALSE,
     short_uso |-> FALSE]

\* No branch taken, with the flags cleared all the same.
NoTrade_ClearsFlags(sb, su) ==
    [orders |-> << >>, short_bno |-> FALSE, short_uso |-> FALSE]

\* No branch taken.
NoTrade(sb, su) == [orders |-> << >>, short_bno |-> sb, short_uso |-> su]

\* The chain with entries allowed from FLAT only: an open position must be
\* closed before the opposite one is entered.
Decide_NoDirectFlip(zscore, sb, su) ==
    IF EnterShortGuard(zscore, sb) /\ ~su THEN EnterShort(sb, su)
    ELSE IF EnterLongGuard(zscore, su) /\ ~sb THEN EnterLong(sb, su)
    ELSE IF ExitGuard(zscore) THEN ExitFlat(sb, su)
    ELSE NoTrade(sb, su)

\* The if / elif / elif chain on the z-score and the two flags.
Decide(zscore, sb, su) ==
    IF EnterShortGuard(zscore, sb) THEN EnterShort(sb, su)
    ELSE IF EnterLongGuard(zscore, su) THEN EnterLong(sb, su)
    ELSE IF ExitGuard(zscore) THEN ExitFlat(sb, su)
    ELSE NoTrade(sb, su)

\* record(zscore = zscore), at the end of the std > 0 block
record(zscore) == << zscore >>

\* What the if / elif chain did (d), and the record made after it.
Recorded(d, zscore) ==
    [orders |-> d.orders, short_bno |-> d.short_bno,
     short_uso |-> d.short_uso, recorded |-> record(zscore)]

\* The block under `if std > 0` once zscore is computed: the if / elif chain,
\* then record(zscore = zscore).
Block(zscore, sb, su) == Recorded(Decide(zscore, sb, su), zscore)

\* check_spread with record(zscore = zscore) indented into the last branch:
\* the z-score is recorded only when the exit branch is taken.
Run_RecordsOnlyOnExit(p, sb, su) ==
    LET mavg   == mavg_of(p)
        std    == std_of(p)
        spread == spread_of(p)
    IN  IF StdPositive(std)
        THEN LET zscore == zscore_of(p, spread, mavg, std)
                 d      == Decide(zscore, sb, su)
             IN  [orders |-> d.orders, short_bno |-> d.short_bno,
                  short_uso |-> d.short_uso,
                  recorded |-> IF d.orders = ExitFlat(sb, su).orders
                               THEN record(zscore) ELSE << >>]
        ELSE [orders |-> << >>, short_bno |-> sb, short_uso |-> su,
              recorded |-> << >>]

\* Everything check_spread does with the window p and the flags sb, su: the
\* orders it emits, the records it makes and the flags it leaves.
Run(p, sb, su) ==
    IF StdPositive(std_of(p))
    THEN Block(zscore_of(p, spread_of(p), mavg_of(p), std_of(p)), sb, su)
    ELSE [orders |-> << >>, short_bno |-> sb, short_uso |-> su,
          recorded |-> << >>]

---------------------------------------------------------------------------
(* The state machine *)

\* initialize(context): both flags False; nothing ordered, nothing recorded.
Init ==
    /\ pc = "idle"
    /\ prices = << >>
    /\ short_bno = FALSE
    /\ short_uso = FALSE
    /\ orders = << >>
    /\ recorded = << >>
    /\ prior = << FALSE, FALSE >>
    /\ last_orders = << >>

\* One scheduled invocation of check_spread(context, data), whole: the host
\* hands over a window, the handler computes, orders, sets the flags, records
\* and returns.
check_spread ==
    /\ pc = "idle"
    /\ \E h \in History :
          \E r \in {Run(h, short_bno, short_uso)} :
              /\ prices' = h
              /\ prior' = << short_bno, short_uso >>
              /\ orders' = r.orders
              /\ recorded' = r.recorded
              /\ short_bno' = r.short_bno
              /\ short_uso' = r.short_uso
    /\ pc' = "returned"
    /\ UNCHANGED last_orders

\* The trading day ends: the handler's locals are gone, the host has taken the
\* day's orders and records, and the schedule waits for the next day.
EndOfDay ==
    /\ pc = "returned"
    /\ pc' = "idle"
    /\ prices' = << >>
    /\ last_orders' = IF orders # << >> THEN orders ELSE last_orders
    /\ orders' = << >>
    /\ recorded' = << >>
    /\ prior' = << short_bno, short_uso >>
    /\ UNCHANGED << short_bno, short_uso >>

Next == check_spread \/ EndOfDay

Spec == Init /\ [][Next]_vars

---------------------------------------------------------------------------
(* Vocabulary of the properties, stated on the window itself in whole      *)
(* numbers.  With s the spreads of the rows that have both prices, in      *)
(* units of the common denominator of the prices, N their count and S      *)
(* their sum: N * (s_last - mean) = N * s_last - S, and                    *)
(* N^3 * std^2 = the sum of the (N * s_i - S)^2, so that                   *)
(* z^2 = N * (N * s_last - S)^2 / sum of the (N * s_i - S)^2.              *)
(* The std and the z of a property are those of the invocation, the        *)
(* doubles that check_spread computes from the window: where the fraction  *)
(* above is off 1.0^2 and 1.8^2 it tells on which side of the threshold    *)
(* the double is, and where it is on one of them, or is 0 / 0, the double  *)
(* arithmetic tells.                                                       *)

\* The spreads BNO - USO of the rows that have both prices, as whole numbers
\* of the common denominator of the prices.
SpreadSeries(p) ==
    LET rows == SelectSeq(p, Present)
        d    == CommonDen(rows)
    IN  [i \in 1..Len(rows) |->
            InUnits(rows[i][bno], d) - InUnits(rows[i][uso], d)]

RECURSIVE IntSum(_)
IntSum(s) ==
    IF Len(s) = 0 THEN 0
    ELSE IF Len(s) = 1 THEN s[1]
    ELSE IntSum(SubSeq(s, 1, Len(s) \div 2))
             + IntSum(SubSeq(s, Len(s) \div 2 + 1, Len(s)))

NObs(p) == Len(SpreadSeries(p))

LastPresent(p) == Len(p) > 0 /\ Present(p[Len(p)])

\* N * (s_last - mean)
ScaledDev(p) ==
    LET s == SpreadSeries(p)
        n == Len(s)
    IN  n * s[n] - IntSum(s)

\* N^3 * std^2, std the population standard deviation
ScaledVar(p) ==
    LET s   == SpreadSeries(p)
        n   == Len(s)
        tot == IntSum(s)
    IN  IntSum([i \in 1..n |-> (n * s[i] - tot) * (n * s[i] - tot)])

\* The spreads of the rows that have both prices are one and the same double.
SameSpreads(p) ==
    LET s == Valid(spread_double(p))
    IN  \A i \in 1..Len(s) : s[i] = s[1]

\* std > 0: the double np.std returns is above 0.
StdAboveZero(p) == NObs(p) > 0 /\ (ScaledVar(p) > 0 \/ RoundedAboveZero(p))

\* The window has standard deviation 0: all its spreads are identical.
StdIsZero(p) ==
    NObs(p) > 0 /\ ScaledVar(p) = 0 /\ (DyadicPrices(p) \/ SameSpreads(p))

\* The z-score exists and is a finite number.
HasZ(p) == StdAboveZero(p) /\ LastPresent(p)

\* z^2 as a fraction
ZSqNum(p) == NObs(p) * ScaledDev(p) * ScaledDev(p)
ZSqDen(p) == ScaledVar(p)

\* For a window whose exact z-score is t or -t: the side of the double of t
\* that abs(z) is on.
ZSide(p, t) == RoundingSide(p, mavg_of(p), std_of(p), t)

\* The sign of z: that of s_last - mean, and that of the double where the
\* spreads are all the same number.
ZSign(p) ==
    IF ScaledVar(p) = 0 THEN DSign(zscore_double(p)) ELSE Sign(ScaledDev(p))

\* |z| > 1.8 and |z| < 1.0   (1.8^2 = 81/25); with spreads that are all the
\* same number both sides are 0 and the double arithmetic tells.
ZAbsAboveEntry(p) ==
    \/ 25 * ZSqNum(p) > 81 * ZSqDen(p)
    \/ 25 * ZSqNum(p) = 81 * ZSqDen(p) /\ ZSide(p, EntryThreshold) > 0

ZAbsBelowExit(p) ==
    \/ ZSqNum(p) < ZSqDen(p)
    \/ ZSqNum(p) = ZSqDen(p) /\ ZSide(p, ExitThreshold) < 0

\* z > 1.8, z < -1.8, |z| < 1.0, 1.0 <= |z| <= 1.8
ZAboveEntry(p) == HasZ(p) /\ ZSign(p) > 0 /\ ZAbsAboveEntry(p)
ZBelowEntry(p) == HasZ(p) /\ ZSign(p) < 0 /\ ZAbsAboveEntry(p)
ZInsideExit(p) == HasZ(p) /\ ZAbsBelowExit(p)
ZInDeadZone(p) == HasZ(p) /\ ~ZAbsBelowExit(p) /\ ~ZAbsAboveEntry(p)

\* The three positions as values of <<short_bno, short_uso>>
FLAT == << FALSE, FALSE >>
SHORT_SPREAD == << TRUE, FALSE >>
LONG_SPREAD == << FALSE, TRUE >>

Flags == << short_bno, short_uso >>

\* The order pairs, fractions in tenths
ShortSpreadOrders == << <<bno, -5>>, <<uso, 5>> >>
LongSpreadOrders == << <<bno, 5>>, <<uso, -5>> >>
FlatOrders == << <<bno, 0>>, <<uso, 0>> >>

\* check_spread has run on the window `prices` and completed normally.
Returned == pc = "returned"

---------------------------------------------------------------------------
(* Properties *)

\* C1. State exclusivity: from initialize on, after any sequence of
\* check_spread invocations, short_bno and short_uso are never both TRUE.
C1_StateExclusivity == ~(short_bno /\ short_uso)

\* An invocation has flipped LONG_SPREAD directly into SHORT_SPREAD: the step
\* on which a flag left set would make both TRUE.
C1_Witness == Returned /\ prior = LONG_SPREAD /\ Flags = SHORT_SPREAD

\* C2. Enter short-spread: an invocation with std > 0 and z > 1.8 that found
\* the state FLAT or LONG_SPREAD emits exactly the orders (BNO -0.5, USO +0.5)
\* and leaves the state SHORT_SPREAD.
C2_EnterShortSpread ==
    (Returned /\ ZAboveEntry(prices) /\ prior # SHORT_SPREAD)
        => (orders = ShortSpreadOrders /\ Flags = SHORT_SPREAD)

\* The direct flip: z > 1.8 found LONG_SPREAD and the short-spread orders went out.
C2_Witness ==
    /\ Returned /\ ZAboveEntry(prices) /\ prior = LONG_SPREAD
    /\ orders = ShortSpreadOrders

\* C3. Enter long-spread: an invocation with std > 0 and z < -1.8 that found
\* the state FLAT or SHORT_SPREAD emits exactly the orders (BNO +0.5, USO -0.5)
\* and leaves the state LONG_SPREAD.
C3_EnterLongSpread ==
    (Returned /\ ZBelowEntry(prices) /\ prior # LONG_SPREAD)
        => (orders = LongSpreadOrders /\ Flags = LONG_SPREAD)

\* The direct flip: z < -1.8 found SHORT_SPREAD and the long-spread orders went out.
C3_Witness ==
    /\ Returned /\ ZBelowEntry(prices) /\ prior = SHORT_SPREAD
    /\ orders = LongSpreadOrders

\* C4. Exit to flat: an invocation with std > 0 and |z| < 1.0 emits the orders
\* (BNO 0.0, USO 0.0) and leaves the state FLAT, whatever state it found, FLAT
\* included.
C4_ExitToFlat ==
    (Returned /\ ZInsideExit(prices))
        => (orders = FlatOrders /\ Flags = FLAT)

\* |z| < 1.0 found the state already FLAT, after an earlier exit, and the flat
\* orders went out again.
C4_Witness ==
    /\ Returned /\ ZInsideExit(prices) /\ prior = FLAT
    /\ last_orders = FlatOrders /\ orders = FlatOrders

\* C5. Dead zone: an invocation with std > 0 and 1.0 <= |z| <= 1.8, both ends
\* included on either sign, emits no order and leaves both flags as it found
\* them.
C5_DeadZone ==
    (Returned /\ ZInDeadZone(prices))
        => (orders = << >> /\ Flags = prior)

\* z is exactly 1.8 and the state found was FLAT: one step further and the
\* short-spread entry would fire.
C5_Witness ==
    /\ Returned /\ HasZ(prices) /\ ScaledDev(prices) > 0
    /\ 25 * ZSqNum(prices) = 81 * ZSqDen(prices)
    /\ prior = FLAT /\ orders = << >>

\* C6. No redundant re-entry: z > 1.8 found in SHORT_SPREAD, or z < -1.8 found
\* in LONG_SPREAD, emits no order and changes no flag; and an entry order pair
\* is never the same as the order pair emitted last before it.
C6_NoRedundantReentry ==
    /\ (Returned /\ ZAboveEntry(prices) /\ prior = SHORT_SPREAD)
          => (orders = << >> /\ Flags = prior)
    /\ (Returned /\ ZBelowEntry(prices) /\ prior = LONG_SPREAD)
          => (orders = << >> /\ Flags = prior)
    /\ (Returned /\ orders \in {ShortSpreadOrders, LongSpreadOrders})
          => orders # last_orders

\* z > 1.8 again while SHORT_SPREAD, the short-spread pair being the last one
\* emitted: nothing is ordered.
C6_Witness ==
    /\ Returned /\ ZAboveEntry(prices) /\ prior = SHORT_SPREAD
    /\ last_orders = ShortSpreadOrders /\ orders = << >>

\* C7. Degenerate window: an invocation whose window has standard deviation 0
\* (all spreads identical) completes, emits no order and no zscore record, and
\* leaves both flags as it found them, in every prior state.
C7_DegenerateWindow ==
    (Returned /\ StdIsZero(prices))
        => (orders = << >> /\ recorded = << >> /\ Flags = prior)

\* The z-score value r is the window p's z-score: NaN when the last spread is
\* missing, else of the sign of s_last - mean, of square ZSqNum / ZSqDen and,
\* where that is the square of a threshold, on the side of it the double
\* (s_last - mean) / std is; where the spreads are all the same number, that
\* double.
IsZScoreOf(r, p) ==
    IF ~LastPresent(p) THEN IsNaN(r)
    ELSE IF ScaledVar(p) = 0 THEN r = OfDouble(zscore_double(p))
    ELSE /\ ~IsNaN(r)
         /\ r.sgn = Sign(ScaledDev(p))
         /\ r.den > 0
         /\ Reduced(Frac(r.num, r.den)) = Reduced(Frac(ZSqNum(p), ZSqDen(p)))
         /\ r.side = IF ZSqNum(p) = ZSqDen(p) THEN ZSide(p, ExitThreshold)
                     ELSE IF 25 * ZSqNum(p) = 81 * ZSqDen(p)
                     THEN ZSide(p, EntryThreshold)
                     ELSE 0

\* C8. Telemetry: an invocation with std > 0 records the zscore metric exactly
\* once, whichever branch is taken, and the value is the z-score of the window;
\* an invocation with std not greater than 0 records nothing.
C8_Telemetry ==
    Returned =>
        IF StdAboveZero(prices)
        THEN Len(recorded) = 1 /\ IsZScoreOf(recorded[1], prices)
        ELSE recorded = << >>

\* A redundant-entry no-op (z > 1.8 while SHORT_SPREAD) is recorded once.
C8_Witness ==
    /\ Returned /\ ZAboveEntry(prices) /\ prior = SHORT_SPREAD
    /\ orders = << >> /\ Len(recorded) = 1

\* C9. Z-score formula: for a window with std > 0 the z-score check_spread
\* uses is (s_last - mean(s)) / std(s), s the spreads BNO - USO of the window,
\* std the population standard deviation (divisor N); it is the same whatever
\* the flags are.
C9_ZScoreFormula ==
    (Returned /\ StdAboveZero(prices))
        => (recorded # << >> /\ IsZScoreOf(recorded[1], prices))

\* A full window (no price missing) with a negative z-score, computed while
\* the flags are not the initial ones.
C9_Witness ==
    /\ Returned /\ NObs(prices) = Len(prices) /\ StdAboveZero(prices)
    /\ prior = LONG_SPREAD
    /\ recorded # << >> /\ recorded[1].sgn = -1

\* A price of the window's last row is missing, so no finite z-score exists.
MissingLast(p) == Len(p) > 0 /\ ~Present(p[Len(p)])

\* C10. Missing or malformed data fails fast: on a window in which a price is
\* missing, so that the z-score is not a finite number, check_spread ends in a
\* fatal error and does not complete normally.
C10_MissingDataFailsFast == ~(Returned /\ MissingLast(prices))

---------------------------------------------------------------------------
(* The three branches of check_spread taken in another order *)

\* The guard and the body of branch k: 1 enter-short, 2 enter-long, 3 exit-flat.
GuardOf(k, zscore, sb, su) ==
    CASE k = 1 -> EnterShortGuard(zscore, sb)
      [] k = 2 -> EnterLongGuard(zscore, su)
      [] k = 3 -> ExitGuard(zscore)

BodyOf(k, sb, su) ==
    CASE k = 1 -> EnterShort(sb, su)
      [] k = 2 -> EnterLong(sb, su)
      [] k = 3 -> ExitFlat(sb, su)

\* The if / elif / elif chain with its branches in the order o.
DecideInOrder(o, zscore, sb, su) ==
    IF GuardOf(o[1], zscore, sb, su) THEN BodyOf(o[1], sb, su)
    ELSE IF GuardOf(o[2], zscore, sb, su) THEN BodyOf(o[2], sb, su)
    ELSE IF GuardOf(o[3], zscore, sb, su) THEN BodyOf(o[3], sb, su)
    ELSE NoTrade(sb, su)

\* The six orders of the three branches.
BranchOrders == {o \in [1..3 -> 1..3] : \A i, j \in 1..3 : o[i] = o[j] => i = j}

\* The branches whose guard holds.
EnabledBranches(zscore, sb, su) == {k \in 1..3 : GuardOf(k, zscore, sb, su)}

\* C11. Evaluation-order independence: for the z-score of every invocation and
\* every pair of flags at most one of the three guards holds, and the chain
\* taken in any of the six orders gives the orders and the flags the fixed
\* order [enter-short, enter-long, exit-flat] gives, which are those the
\* invocation produced.
C11_OrderIndependence ==
    (Returned /\ recorded # << >>) =>
        /\ \A sb, su \in BOOLEAN :
              /\ Cardinality(EnabledBranches(recorded[1], sb, su)) <= 1
              /\ \A o \in BranchOrders :
                    DecideInOrder(o, recorded[1], sb, su)
                        = DecideInOrder(<<1, 2, 3>>, recorded[1], sb, su)
        /\ LET d == DecideInOrder(<<1, 2, 3>>, recorded[1], prior[1], prior[2])
           IN  orders = d.orders /\ Flags = << d.short_bno, d.short_uso >>

\* z < -1.8 met in SHORT_SPREAD: the enter-long branch alone is enabled and the
\* chain read backwards orders the same flip.
C11_Witness ==
    /\ Returned /\ recorded # << >> /\ prior = SHORT_SPREAD
    /\ EnabledBranches(recorded[1], prior[1], prior[2]) = {2}
    /\ DecideInOrder(<<3, 2, 1>>, recorded[1], prior[1], prior[2]).orders = orders
    /\ orders = LongSpreadOrders

\* An order pair: BNO first, USO second, fractions -0.5, 0.0 or +0.5.
IsOrderPair(o) ==
    /\ Len(o) = 2
    /\ o[1][1] = bno /\ o[2][1] = uso
    /\ o[1][2] \in {-5, 0, 5} /\ o[2][2] \in {-5, 0, 5}

\* C12. Orders come in pairs: an invocation emits no order, or exactly two,
\* the first for BNO and the second for USO, each with a fraction among -0.5,
\* 0.0, +0.5; never an order for one instrument alone.
C12_OrdersInPairs == orders = << >> \/ IsOrderPair(orders)

\* An open long-spread position is closed: the two zero orders go out together.
C12_Witness ==
    /\ Returned /\ prior = LONG_SPREAD /\ Len(orders) = 2
    /\ orders[1] = <<bno, 0>> /\ orders[2] = <<uso, 0>>

\* C13. Position state is mutated only by an ordering step: the flags are
\* (False, False) and nothing is ordered as long as no invocation has emitted
\* an order (after initialize in particular), the flags do not change between
\* invocations, and an invocation that changes a flag has emitted the two
\* orders.
C13_FlagsChangeOnlyWithOrders ==
    /\ (pc = "idle" /\ last_orders = << >>) => (Flags = FLAT /\ orders = << >>)
    /\ pc = "idle" => Flags = prior
    /\ (Returned /\ Flags # prior) => Len(orders) = 2
    /\ (Returned /\ orders = << >>) => Flags = prior

\* A dead-zone invocation met in LONG_SPREAD: no order, the flags untouched.
C13_Witness ==
    /\ Returned /\ ZInDeadZone(prices) /\ prior = LONG_SPREAD
    /\ orders = << >> /\ Flags = LONG_SPREAD

\* The order pair emitted most recently, << >> when none was yet.
MostRecentOrders == IF orders # << >> THEN orders ELSE last_orders

\* C14. Flags mirror the last emitted orders: short_bno is TRUE exactly when
\* the pair emitted most recently is (BNO -0.5, USO +0.5), short_uso exactly
\* when it is (BNO +0.5, USO -0.5), and both are FALSE exactly when no pair was
\* emitted yet or the most recent one is (BNO 0.0, USO 0.0).
C14_FlagsMirrorOrders ==
    /\ short_bno <=> MostRecentOrders = ShortSpreadOrders
    /\ short_uso <=> MostRecentOrders = LongSpreadOrders
    /\ (~short_bno /\ ~short_uso) <=> MostRecentOrders \in {<< >>, FlatOrders}

\* A degenerate window met in LONG_SPREAD: nothing is ordered, and the pair of
\* an earlier day still stands for the flags.
C14_Witness ==
    /\ Returned /\ StdIsZero(prices) /\ orders = << >>
    /\ last_orders = LongSpreadOrders /\ short_uso /\ ~short_bno

\* C15. A position is held until the spread reverts or flips: an invocation
\* met in SHORT_SPREAD leaves SHORT_SPREAD unless std > 0 and |z| < 1.0 or
\* z < -1.8; one met in LONG_SPREAD leaves LONG_SPREAD unless std > 0 and
\* |z| < 1.0 or z > 1.8; and the position does not change between invocations.
C15_PositionHeld ==
    /\ (Returned /\ prior = SHORT_SPREAD
          /\ ~ZInsideExit(prices) /\ ~ZBelowEntry(prices))
          => Flags = SHORT_SPREAD
    /\ (Returned /\ prior = LONG_SPREAD
          /\ ~ZInsideExit(prices) /\ ~ZAboveEntry(prices))
          => Flags = LONG_SPREAD
    /\ (pc = "idle" /\ prior # FLAT) => Flags = prior

\* A z-score between -1.8 and -1.0 met in SHORT_SPREAD: the position stays.
C15_Witness ==
    /\ Returned /\ prior = SHORT_SPREAD /\ ZInDeadZone(prices)
    /\ ScaledDev(prices) < 0 /\ Flags = SHORT_SPREAD

\* The fractions of the pair o sum to 0 and their sizes to at most 1.0.
DollarNeutral(o) ==
    /\ Len(o) = 2
    /\ o[1][2] + o[2][2] = 0
    /\ AbsInt(o[1][2]) + AbsInt(o[2][2]) <= 10

\* C16. Dollar-neutral targets: in every order pair emitted the BNO and the USO
\* fractions sum to 0 and their absolute values to at most 1.0, so the target
\* allocation requested most recently is never net long or short nor above
\* 100% gross.
C16_DollarNeutral ==
    /\ orders # << >> => DollarNeutral(orders)
    /\ last_orders # << >> => DollarNeutral(last_orders)

\* A direct flip: the short-spread pair follows the long-spread pair.
C16_Witness ==
    /\ Returned /\ orders = ShortSpreadOrders /\ last_orders = LongSpreadOrders

====
